---- MODULE Spec2Model ----
(***************************************************************************)
(* State-machine model of the execution-context core of axcpu:             *)
(*   - riscv: TaskContext::new / init / set_page_table_root / switch_to    *)
(*     and the naked routine context_switch (src/src/riscv/context.rs).    *)
(*   - aarch64 (EL2): enter_geust / __run_guest and vmexit_trampoline      *)
(*     (src/src/aarch64/el2.rs).                                           *)
(*   - arm: the trap dispatcher: invalid_exception and the prefetch / data *)
(*     abort handlers (src/src/arm/trap.rs).                               *)
(* The crate is built for one architecture: `arch` is fixed at start.      *)
(* A hart runs one flow of control at a time; switch_to is modelled step   *)
(* by step (TLS, address space, FP, raw register exchange).                *)
(***************************************************************************)
EXTENDS Integers, Sequences, FiniteSets, TLC

(* ------------------------------ bounds -------------------------------- *)
\* number of tasks (task 1 is the boot task, running at start)
NumTasks == 2
\* register / address values range over 0..MaxWord
MaxWord == 1
\* number of register writes (integer, FP, fcsr, sstatus.SIE) by the running
\* flows in one behaviour
MaxWrites == 1
\* arm: the raw kind numbers passed to invalid_exception range over 0..MaxKind
MaxKind == 8
\* user-space entry: entry, ustack_top, arg0 and kstack_top range over
\* 1..MaxUser
MaxUser == 3

Tasks == 1..NumTasks
Word == 0..MaxWord

(* ------------------------- program constants -------------------------- *)
\* FpStatus.fp: [u64; 32]
NumFpRegs == 32
\* STR t0, a0, 32 / LDR t0, a0, 32: the word after the 32 FP slots (FpStatus.fcsr)
FcsrSlot == 32

FpIdx == 0..(NumFpRegs - 1)
FpMem == 0..FcsrSlot

\* sstatus.FS states
FS == {"Off", "Initial", "Clean", "Dirty"}

\* the page-table root of the kernel, and one user address space
KernelRoot == "kernel_pt"
Roots == {"kernel_pt", "user_pt"}

\* The word fields of TaskContext in declaration order (#[repr(C)]): the
\* offset of each field in machine words.
Off ==
  [ra |-> 0, sp |-> 1, s0 |-> 2, s1 |-> 3, s2 |-> 4, s3 |-> 5, s4 |-> 6,
   s5 |-> 7, s6 |-> 8, s7 |-> 9, s8 |-> 10, s9 |-> 11, s10 |-> 12,
   s11 |-> 13, tp |-> 14]

WordSlots == 0..14

\* the hardware integer registers the model tracks
Regs == {"ra", "sp", "s0", "s1", "s2", "s3", "s4", "s5", "s6", "s7", "s8",
         "s9", "s10", "s11", "tp"}
CalleeSaved == Regs \ {"tp"}

(* ------------------------------ state --------------------------------- *)
VARIABLES
  arch,     \* the target architecture of the build and the part of the
            \* crate that the behaviour exercises
  el2,      \* aarch64: the hart in the host/guest world switch (see El2Init)
  trap,     \* arm: the trap being dispatched and its outcome (see TrapIdle)
  us,       \* riscv64 / loongarch64: user-space entry (see UsIdle)
  mmu,      \* arm: the translation registers during init_mmu (see MmuReset)
  idt,      \* x86_64: the IDT under construction (see IdtEmpty)
  hw,       \* the hart: x (integer registers), satp, f, fcsr, fs, sie
  ctx,      \* ctx[t]: the TaskContext of task t (w: word slots, satp, fpm, fs)
  st,       \* st[t]: "none" | "new" | "ready" | "running" | "suspended"
  pc,       \* position of the hart in switch_to, or "run" / "landed" / "panic"
  cur,      \* switch_to's self (a0 of context_switch)
  nxt,      \* switch_to's next_ctx (a1 of context_switch)
  log,      \* hardware / memory effects of the switch_to call in progress
  pre,      \* hw, ctx and st at the call of the switch_to in progress
  callRegs, \* callRegs[t]: callee-saved registers when t called context_switch
  fpOut,    \* fpOut[t]: the FP registers and fcsr when t called switch_to
  initArgs, \* initArgs[t]: the arguments of init(t, ...)
  writes    \* register writes performed so far

vars == <<arch, el2, trap, us, mmu, idt, hw, ctx, st, pc, cur, nxt, log, pre, callRegs, fpOut, initArgs, writes>>

NoArgs == [entry |-> 0, kstack_top |-> 0, tls_area |-> 0]
NoPre == [hw |-> <<>>, ctx |-> <<>>, st |-> <<>>]

(* --------------------------- TaskContext ------------------------------ *)
\* FpStatus::default()
FpStatusDefault == [fpm |-> [i \in FpMem |-> 0], fs |-> "Initial"]

\* crate::asm::read_kernel_page_table()
ReadKernelPageTable == KernelRoot

\* TaskContext::new(): every word zero, satp the kernel root, FS Initial
TaskContextNew ==
  [w |-> [k \in WordSlots |-> 0],
   satp |-> ReadKernelPageTable,
   fpm |-> FpStatusDefault.fpm,
   fs |-> "Initial"]

\* a variant of init that stores entry and kstack_top in each other's field
TaskContextInitSwapped(c, entry, kstack_top, tls_area) ==
  [c EXCEPT !.w = [c.w EXCEPT ![Off.sp] = entry,
                              ![Off.ra] = kstack_top,
                              ![Off.tp] = tls_area]]

\* TaskContext::init(&mut self, entry, kstack_top, tls_area)
TaskContextInit(c, entry, kstack_top, tls_area) ==
  [c EXCEPT !.w = [c.w EXCEPT ![Off.sp] = kstack_top,
                              ![Off.ra] = entry,
                              ![Off.tp] = tls_area]]

\* TaskContext::set_page_table_root(&mut self, satp)
TaskContextSetRoot(c, satp) == [c EXCEPT !.satp = satp]

(* ------------------------ aarch64 EL2 constants ----------------------- *)
\* bytes of a register
RegBytes == 8
\* the host callee-saved registers pushed by save_regs_to_stack
HostRegs == {"x19", "x20", "x21", "x22", "x23", "x24", "x25", "x26", "x27",
             "x28", "x29", "x30"}
\* sub sp, sp, 12 * 8
SaveBytes == 12 * RegBytes
\* add x9, sp, 34 * 8 in vmexit_trampoline
TrampolineSkip == 34 * RegBytes
\* words of the aarch64 TrapFrame (x0..x30, sp_el0, elr, spsr)
TrapFrameWords == 34
\* core::mem::size_of::<TrapFrame>()
SizeOfTrapFrame == TrapFrameWords * RegBytes

\* memory layout of the model: the host stack below HostStackTop, the vCPU
\* structure (guest TrapFrame, then host_stack_top) at VcpuBase
HostStackTop == 16 * RegBytes
VcpuBase == HostStackTop
MemTop == VcpuBase + SizeOfTrapFrame + RegBytes
Cells == {a \in 0..MemTop : a % RegBytes = 0}

\* the address after the call of __run_guest in enter_geust
RunGuestRet == 1

\* el2 before any guest entry: host code running on the host stack
El2Init ==
  [pc |-> "host",
   x |-> [r \in HostRegs |-> 0],
   sp |-> HostStackTop,
   x0 |-> 0, x9 |-> 0, x10 |-> 0,
   irq_masked |-> TRUE,
   mem |-> [a \in Cells |-> 0],
   call |-> <<>>,
   kind |-> "none",
   ev |-> <<>>]

(* ------------------------ arm: trap constants -------------------------- *)
\* ifsr & 0xF, dfsr & 0xF
FsMask == 15
\* tf.cpsr & 0x1F
ModeMask == 31
\* == 0x10: user mode
UserMode == 16
\* dfsr & (1 << 11): the WnR bit
WnRBit == 2048
\* a variant of PageFaultFs in which every fault status is a page fault
PageFaultFsAll == 0..15
\* 0b0101 | 0b0111 | 0b1101 | 0b1111: translation and permission faults
PageFaultFs == {5, 7, 13, 15}

\* the addresses of the two instruction words of the model
PcValues == {0, 4}
\* a u32 is held as its top byte (hi) and its low 24 bits (lo)
U32Zero == [hi |-> 0, lo |-> 0]
\* a variant of SvcMask that keeps the low 8 bits
SvcMaskByte == [hi |-> 0, lo |-> 255]
\* (*pc) & 0x00FFFFFF
SvcMask == [hi |-> 0, lo |-> 16777215]
\* handle_trap!(IRQ, 0)
IrqVector == 0

\* no trap is being handled. uspace: the crate is built with feature "uspace";
\* tf0 / tf: the TrapFrame at the entry of the handler and now; imem: the
\* instruction words at PcValues; calls,
\* irq_calls, sys_calls: the invocations of the external handlers
TrapIdle ==
  [pc |-> "run",
   uspace |-> FALSE,
   handler |-> "none",
   tf0 |-> [pc |-> 0, cpsr |-> 0, r0 |-> 0],
   tf |-> [pc |-> 0, cpsr |-> 0, r0 |-> 0],
   num |-> 0, fsr |-> 0, far |-> 0,
   imem |-> [a \in PcValues |-> U32Zero],
   kind |-> "none",
   calls |-> <<>>,
   irq_calls |-> <<>>,
   sys_calls |-> <<>>,
   panic |-> "none"]

(* ----------------- user-space entry: constants ------------------------ *)
\* riscv GeneralRegisters, in field order: the slot of a register in the
\* TrapFrame is its position here minus one
RiscvRegs ==
  <<"ra", "sp", "gp", "tp", "t0", "t1", "t2", "s0", "s1", "a0", "a1", "a2",
    "a3", "a4", "a5", "a6", "a7", "s2", "s3", "s4", "s5", "s6", "s7", "s8",
    "s9", "s10", "s11", "t3", "t4", "t5", "t6">>
\* riscv TrapFrame: regs, sepc, sstatus
RiscvSepcSlot == Len(RiscvRegs)
RiscvSstatusSlot == Len(RiscvRegs) + 1
\* size_of::<TrapFrame>() in words (riscv)
RiscvFrameWords == Len(RiscvRegs) + 2
\* loongarch64 GeneralRegisters: r0..r31 by register number
LoongRegs ==
  <<"zero", "ra", "tp", "sp", "a0", "a1", "a2", "a3", "a4", "a5", "a6", "a7",
    "t0", "t1", "t2", "t3", "t4", "t5", "t6", "t7", "t8", "r21", "fp", "s0",
    "s1", "s2", "s3", "s4", "s5", "s6", "s7", "s8">>
\* loongarch64 TrapFrame: regs, prmd, era
LoongPrmdSlot == Len(LoongRegs)
LoongEraSlot == Len(LoongRegs) + 1
\* the slot of register r in a frame whose registers are laid out as regs
SlotOf(regs, r) == (CHOOSE i \in 1..Len(regs) : regs[i] = r) - 1
\* the words addressed through the frame pointer: 0..33
FrameTop == 33
FrameSlots == 0..FrameTop
\* sstatus bits: SIE (bit 1), SPIE (bit 5), SPP (bit 8), FS = Initial (bit 13),
\* SUM (bit 18)
SstatusSie == 2
SstatusSpie == 32
SstatusSpp == 256
SstatusFsInitial == 8192
SstatusSum == 262144
\* const PPLV_UMODE: usize = 0b11; const PIE: usize = 1 << 2
PplvUmode == 3
Pie == 4

\* no user context has been built; the hart runs kernel code with all
\* registers zero, in supervisor privilege
UsIdle ==
  [pc |-> "kernel",
   args |-> [entry |-> 0, ustack_top |-> 0, arg0 |-> 0],
   mem |-> [i \in FrameSlots |-> 0],
   kstack_top |-> 0,
   x |-> [r \in {"sp", "gp", "tp", "r21", "a0", "ra", "a1", "t0"} |-> 0],
   status |-> 0,
   ksp |-> 0,
   epc |-> 0,
   upc |-> 0,
   priv |-> "S",
   ie |-> TRUE,
   ev |-> <<>>]

(* ------------------------ arm: init_mmu constants ---------------------- *)
\* mcr p15, 0, {}, c2, c0, 2 with 0x1u32
TtbcrValue == 1
\* mcr p15, 0, {}, c3, c0, 0 with 0x55555555u32
DacrValue == 1431655765

\* the translation registers before init_mmu: roots and controls not yet
\* written, TLB holding entries of an earlier configuration, MMU off
MmuReset ==
  [pc |-> 0,
   root |-> 0,
   ttbr0 |-> 0, ttbr1 |-> 0, ttbcr |-> 0, dacr |-> 0,
   written |-> {},
   tlb_stale |-> TRUE,
   sctlr |-> [m |-> FALSE, c |-> FALSE, i |-> FALSE],
   ev |-> <<>>]

(* ------------------------- x86_64: IDT constants ----------------------- *)
\* const NUM_INT: usize = 256
NumInt == 256
\* a variant of UserVectors without the legacy syscall vector
UserVectorsBreakpoint == {3}
\* if i == 0x3 || i == 0x80
UserVectors == {3, 128}
\* PrivilegeLevel::Ring3, and the default Ring0 of set_handler_fn
Ring3 == 3
Ring0 == 0

\* InterruptDescriptorTable::new(): every entry missing
IdtEmpty ==
  [pc |-> "none",
   i |-> 0,
   table |-> [v \in 0..(NumInt - 1) |->
                [present |-> FALSE, handler |-> -1, dpl |-> Ring0]]]

(* ------------------------------- Init --------------------------------- *)
HwReset ==
  [x |-> [r \in Regs |-> 0], satp |-> KernelRoot,
   f |-> [i \in FpIdx |-> 0], fcsr |-> 0, fs |-> "Initial", sie |-> FALSE]

\* nothing recorded: the task is running or was never switched out
NoFp == [out |-> FALSE, f |-> [i \in FpIdx |-> 0], fcsr |-> 0]

Init ==
  /\ arch \in {"riscv64", "aarch64", "arm", "riscv64/uspace", "loongarch64",
               "arm/init", "x86_64"}
  /\ el2 = El2Init
  /\ mmu = MmuReset
  /\ idt = IdtEmpty
  /\ us = UsIdle
  /\ trap \in {[TrapIdle EXCEPT !.uspace = b] :
                 b \in IF arch = "arm" THEN BOOLEAN ELSE {FALSE}}
  /\ hw \in {[HwReset EXCEPT !.fs = s] :
               s \in IF arch = "riscv64" THEN {"Off", "Initial"} ELSE {"Initial"}}
  /\ ctx = [t \in Tasks |-> TaskContextNew]
  /\ st = [t \in Tasks |-> IF t = 1 THEN "running" ELSE "none"]
  /\ pc = "run"
  /\ cur = 1
  /\ nxt = 1
  /\ log = <<>>
  /\ pre = NoPre
  /\ callRegs = [t \in Tasks |-> [r \in CalleeSaved |-> 0]]
  /\ fpOut = [t \in Tasks |-> NoFp]
  /\ initArgs = [t \in Tasks |-> NoArgs]
  /\ writes = 0

\* the task whose flow the hart executes
Running == CHOOSE t \in Tasks : st[t] = "running"

\* the hart executes the running flow's code outside switch_to
Riscv == arch = "riscv64" /\ UNCHANGED <<arch, el2, trap, us, mmu, idt>>

Op == Riscv /\ pc \in {"run", "landed"}

\* a register write by the running flow
Write ==
  /\ Op
  /\ writes < MaxWrites
  /\ writes' = writes + 1

\* after an operation outside switch_to, what was recorded about the last
\* switch is dropped
Idle ==
  /\ pc' = "run"
  /\ log' = <<>>
  /\ pre' = NoPre
  /\ cur' = Running
  /\ nxt' = Running
  /\ callRegs' = [callRegs EXCEPT ![Running] = [r \in CalleeSaved |-> 0]]
  /\ fpOut' = [fpOut EXCEPT ![Running] = NoFp]

(* ------------------ operations of the running flow -------------------- *)
\* let ctx = TaskContext::new()
New(t) ==
  /\ Op /\ Idle
  /\ UNCHANGED writes
  /\ st[t] = "none"
  /\ ctx' = [ctx EXCEPT ![t] = TaskContextNew]
  /\ st' = [st EXCEPT ![t] = "new"]
  /\ initArgs' = [initArgs EXCEPT ![Running] = NoArgs]
  /\ UNCHANGED hw

\* ctx.init(entry, kstack_top, tls_area) on a context made by new()
InitCtx(t, entry, kstack_top, tls_area) ==
  /\ Op /\ Idle
  /\ UNCHANGED writes
  /\ st[t] = "new"
  /\ ctx' = [ctx EXCEPT ![t] = TaskContextInit(ctx[t], entry, kstack_top, tls_area)]
  /\ st' = [st EXCEPT ![t] = "ready"]
  /\ initArgs' = [initArgs EXCEPT ![Running] = NoArgs, ![t] =
        [entry |-> entry, kstack_top |-> kstack_top, tls_area |-> tls_area]]
  /\ UNCHANGED hw

\* ctx.set_page_table_root(satp), on any context, the running task's included
SetPageTableRoot(t, satp) ==
  /\ Op /\ Idle
  /\ UNCHANGED writes
  /\ st[t] # "none"
  /\ ctx[t].satp # satp
  /\ ctx' = [ctx EXCEPT ![t] = TaskContextSetRoot(ctx[t], satp)]
  /\ initArgs' = [initArgs EXCEPT ![Running] = NoArgs]
  /\ UNCHANGED <<hw, st>>

\* the running flow writes an integer register
Clobber(r, v) ==
  /\ Write /\ Idle
  /\ hw.x[r] # v
  /\ hw' = [hw EXCEPT !.x[r] = v]
  /\ initArgs' = [initArgs EXCEPT ![Running] = NoArgs]
  /\ UNCHANGED <<ctx, st>>

\* the running flow executes an FP instruction writing f[i]: FS becomes Dirty
FpWrite(i, v) ==
  /\ Write /\ Idle
  /\ hw.fs # "Off"
  /\ hw' = [hw EXCEPT !.f[i] = v, !.fs = "Dirty"]
  /\ initArgs' = [initArgs EXCEPT ![Running] = NoArgs]
  /\ UNCHANGED <<ctx, st>>

\* the running flow writes fcsr: FS becomes Dirty
FcsrWrite(v) ==
  /\ Write /\ Idle
  /\ hw.fs # "Off"
  /\ hw' = [hw EXCEPT !.fcsr = v, !.fs = "Dirty"]
  /\ initArgs' = [initArgs EXCEPT ![Running] = NoArgs]
  /\ UNCHANGED <<ctx, st>>

\* the running flow enables or disables interrupts (sstatus.SIE)
SetSie(b) ==
  /\ Write /\ Idle
  /\ hw.sie # b
  /\ hw' = [hw EXCEPT !.sie = b]
  /\ initArgs' = [initArgs EXCEPT ![Running] = NoArgs]
  /\ UNCHANGED <<ctx, st>>

(* ----------------------------- switch_to ------------------------------ *)
\* A machine state of one switch_to call: the hart, the contexts, the effects.
Mach(h, c, l) == [hw |-> h, ctx |-> c, log |-> l]

\* crate::asm::read_thread_pointer()
ReadThreadPointer(h) == h.x["tp"]

\* crate::asm::write_thread_pointer(tp)
WriteThreadPointer(h, tp) == [h EXCEPT !.x["tp"] = tp]

\* crate::asm::write_user_page_table(root): the satp write alone, no flush
WriteUserPageTable(h, root) == [h EXCEPT !.satp = root]

\* a variant of the TLS step that begins by disabling interrupts
SwitchTlsMasking(m, a, b) ==
  LET tp == ReadThreadPointer(m.hw)
      c1 == [m.ctx EXCEPT ![a].w[Off.tp] = tp]
      h1 == WriteThreadPointer([m.hw EXCEPT !.sie = FALSE], c1[b].w[Off.tp])
  IN Mach(h1, c1, m.log \o <<<<"tp_read", tp>>, <<"tp_write", c1[b].w[Off.tp]>>>>)

\* a variant of SwitchTls that writes next's tp before it reads the hardware tp
SwitchTlsWriteFirst(m, a, b) ==
  LET h1 == WriteThreadPointer(m.hw, m.ctx[b].w[Off.tp])
      tp == ReadThreadPointer(h1)
      c1 == [m.ctx EXCEPT ![a].w[Off.tp] = tp]
  IN Mach(h1, c1, m.log \o <<<<"tp_write", m.ctx[b].w[Off.tp]>>, <<"tp_read", tp>>>>)

\* #[cfg(feature = "tls")] block of switch_to
SwitchTls(m, a, b) ==
  LET tp == ReadThreadPointer(m.hw)
      c1 == [m.ctx EXCEPT ![a].w[Off.tp] = tp]
      h1 == WriteThreadPointer(m.hw, c1[b].w[Off.tp])
  IN Mach(h1, c1, m.log \o <<<<"tp_read", tp>>, <<"tp_write", c1[b].w[Off.tp]>>>>)

\* a variant of the address-space step without the equality test
SwitchSatpAlways(m, a, b) ==
  Mach(WriteUserPageTable(m.hw, m.ctx[b].satp), m.ctx,
       m.log \o <<<<"satp_write", m.ctx[b].satp>>, <<"tlb_flush", "all">>>>)

\* #[cfg(feature = "uspace")] block of switch_to
SwitchSatp(m, a, b) ==
  IF m.ctx[a].satp # m.ctx[b].satp
  THEN Mach(WriteUserPageTable(m.hw, m.ctx[b].satp), m.ctx,
            m.log \o <<<<"satp_write", m.ctx[b].satp>>, <<"tlb_flush", "all">>>>)
  ELSE m

\* save_fp_registers(&mut fp): PUSH_FLOAT_REGS a0; frcsr t0; STR t0, a0, 32
SaveFpRegisters(h, fpm) ==
  [i \in FpMem |-> IF i = FcsrSlot THEN h.fcsr ELSE h.f[i]]

\* restore_fp_registers(&fp): POP_FLOAT_REGS a0; LDR t0, a0, 32; fscsr x0, t0
RestoreFpRegisters(h, fpm) ==
  [h EXCEPT !.f = [i \in FpIdx |-> fpm[i]], !.fcsr = fpm[FcsrSlot]]

\* clear_fp_registers(): CLEAR_FLOAT_REGS (f0..f31 := 0; fcsr is not written)
ClearFpRegisters(h) == [h EXCEPT !.f = [i \in FpIdx |-> 0]]

\* sstatus::set_fs(fs)
SetFs(h, fs) == [h EXCEPT !.fs = fs]

\* a variant that stores the hardware FS state read before the save
SavedTagCurrent(current_fs) == current_fs

\* the tag stored in the outgoing context after its bank was saved
SavedTag(current_fs) == "Clean"

\* a variant of the save that spills the bank whatever the hardware FS state
SwitchFpSaveAlways(m, a) ==
  Mach(m.hw,
       [m.ctx EXCEPT ![a].fpm = SaveFpRegisters(m.hw, m.ctx[a].fpm),
                     ![a].fs = SavedTag(m.hw.fs)],
       m.log \o <<<<"fp_save", a>>>>)

\* #[cfg(feature = "fp-simd")] block, first half: save the current task's bank
SwitchFpSave(m, a) ==
  LET current_fs == m.hw.fs IN
  IF current_fs = "Dirty"
  THEN Mach(m.hw,
            [m.ctx EXCEPT ![a].fpm = SaveFpRegisters(m.hw, m.ctx[a].fpm),
                          ![a].fs = SavedTag(current_fs)],
            m.log \o <<<<"fp_save", a>>>>)
  ELSE m

\* a variant of the restore whose Clean arm sets FS without reloading the bank
SwitchFpRestoreNoReload(m, b) ==
  CASE m.ctx[b].fs = "Clean" ->
         Mach(SetFs(m.hw, "Clean"), m.ctx, m.log \o <<<<"fs_set", "Clean">>>>)
    [] m.ctx[b].fs = "Initial" ->
         Mach(SetFs(ClearFpRegisters(m.hw), "Initial"), m.ctx,
              m.log \o <<<<"fp_clear", b>>, <<"fs_set", "Initial">>>>)
    [] OTHER -> m

\* #[cfg(feature = "fp-simd")] block, second half: match next_ctx.fp_status.fs
\* (the Dirty arm panics: see SwitchFpPanic)
SwitchFpRestore(m, b) ==
  CASE m.ctx[b].fs = "Clean" ->
         Mach(SetFs(RestoreFpRegisters(m.hw, m.ctx[b].fpm), "Clean"), m.ctx,
              m.log \o <<<<"fp_restore", b>>, <<"fs_set", "Clean">>>>)
    [] m.ctx[b].fs = "Initial" ->
         Mach(SetFs(ClearFpRegisters(m.hw), "Initial"), m.ctx,
              m.log \o <<<<"fp_clear", b>>, <<"fs_set", "Initial">>>>)
    [] OTHER -> m

\* context_switch: the STR lines (register, slot of a0)
StrLines ==
  {<<"ra", 0>>, <<"sp", 1>>, <<"s0", 2>>, <<"s1", 3>>, <<"s2", 4>>,
   <<"s3", 5>>, <<"s4", 6>>, <<"s5", 7>>, <<"s6", 8>>, <<"s7", 9>>,
   <<"s8", 10>>, <<"s9", 11>>, <<"s10", 12>>, <<"s11", 13>>}

\* a variant of the LDR lines with the slots of s10 and s11 exchanged
LdrLinesSwapped ==
  {<<"s11", 12>>, <<"s10", 13>>, <<"s9", 11>>, <<"s8", 10>>, <<"s7", 9>>,
   <<"s6", 8>>, <<"s5", 7>>, <<"s4", 6>>, <<"s3", 5>>, <<"s2", 4>>,
   <<"s1", 3>>, <<"s0", 2>>, <<"sp", 1>>, <<"ra", 0>>}

\* a variant of the LDR lines with the slots of sp and ra exchanged
LdrLinesRaSp ==
  {<<"s11", 13>>, <<"s10", 12>>, <<"s9", 11>>, <<"s8", 10>>, <<"s7", 9>>,
   <<"s6", 8>>, <<"s5", 7>>, <<"s4", 6>>, <<"s3", 5>>, <<"s2", 4>>,
   <<"s1", 3>>, <<"s0", 2>>, <<"sp", 0>>, <<"ra", 1>>}

\* context_switch: the LDR lines (register, slot of a1)
LdrLines ==
  {<<"s11", 13>>, <<"s10", 12>>, <<"s9", 11>>, <<"s8", 10>>, <<"s7", 9>>,
   <<"s6", 8>>, <<"s5", 7>>, <<"s4", 6>>, <<"s3", 5>>, <<"s2", 4>>,
   <<"s1", 3>>, <<"s0", 2>>, <<"sp", 1>>, <<"ra", 0>>}

\* context_switch(a0 = current, a1 = next): store, load, ret (jump to ra)
ContextSwitch(m, a, b) ==
  LET stored == [k \in WordSlots |->
                   IF \E l \in StrLines : l[2] = k
                   THEN m.hw.x[(CHOOSE l \in StrLines : l[2] = k)[1]]
                   ELSE m.ctx[a].w[k]]
      c1 == [m.ctx EXCEPT ![a].w = stored]
      loaded == [r \in Regs |->
                   IF \E l \in LdrLines : l[1] = r
                   THEN c1[b].w[(CHOOSE l \in LdrLines : l[1] = r)[2]]
                   ELSE m.hw.x[r]]
      h1 == [m.hw EXCEPT !.x = loaded]
  IN Mach(h1, c1, m.log \o <<<<"regs_store", a>>, <<"regs_load", b>>, <<"ret", h1.x["ra"]>>>>)

\* the order of the four effects in switch_to
FirstStep == "tls"

\* a variant of the order with the FP step before the address-space step
StepAfterFpFirst(p) ==
  CASE p = "tls" -> "fp"
    [] p = "fp" -> "satp"
    [] p = "satp" -> "raw"

StepAfter(p) ==
  CASE p = "tls" -> "satp"
    [] p = "satp" -> "fp"
    [] p = "fp" -> "raw"

\* the address of the instruction after `context_switch(self, next_ctx)` in
\* switch_to: what the call leaves in ra
SwitchRet == 1

\* the running flow calls self.switch_to(next_ctx) and reaches the call of
\* context_switch with ra = SwitchRet
Call(b) ==
  /\ Op
  /\ b # Running
  /\ st[b] \in {"ready", "suspended"}
  /\ cur' = Running
  /\ nxt' = b
  /\ hw' = [hw EXCEPT !.x["ra"] = SwitchRet]
  /\ pre' = [hw |-> hw', ctx |-> ctx, st |-> st]
  /\ callRegs' = [callRegs EXCEPT ![Running] = [r \in CalleeSaved |-> hw'.x[r]]]
  /\ fpOut' = [fpOut EXCEPT ![Running] = [out |-> TRUE, f |-> hw.f, fcsr |-> hw.fcsr]]
  /\ log' = <<>>
  /\ pc' = FirstStep
  /\ initArgs' = [initArgs EXCEPT ![Running] = NoArgs]
  /\ UNCHANGED <<ctx, st, writes>>

Apply(m) ==
  /\ hw' = m.hw
  /\ ctx' = m.ctx
  /\ log' = m.log

StepTls ==
  /\ Riscv
  /\ pc = "tls"
  /\ Apply(SwitchTls(Mach(hw, ctx, log), cur, nxt))
  /\ pc' = StepAfter(pc)
  /\ UNCHANGED <<st, cur, nxt, pre, callRegs, fpOut, initArgs, writes>>

StepSatp ==
  /\ Riscv
  /\ pc = "satp"
  /\ Apply(SwitchSatp(Mach(hw, ctx, log), cur, nxt))
  /\ pc' = StepAfter(pc)
  /\ UNCHANGED <<st, cur, nxt, pre, callRegs, fpOut, initArgs, writes>>

StepFp ==
  /\ Riscv
  /\ pc = "fp"
  /\ LET m == SwitchFpSave(Mach(hw, ctx, log), cur) IN
       IF m.ctx[nxt].fs = "Dirty"
       THEN /\ Apply(m)
            /\ pc' = "panic"
       ELSE /\ Apply(SwitchFpRestore(m, nxt))
            /\ pc' = StepAfter(pc)
  /\ UNCHANGED <<st, cur, nxt, pre, callRegs, fpOut, initArgs, writes>>

StepRaw ==
  /\ Riscv
  /\ pc = "raw"
  /\ Apply(ContextSwitch(Mach(hw, ctx, log), cur, nxt))
  /\ st' = [st EXCEPT ![cur] = "suspended", ![nxt] = "running"]
  /\ pc' = "landed"
  /\ UNCHANGED <<cur, nxt, pre, callRegs, fpOut, initArgs, writes>>

(* ------------------- aarch64: host/guest world switch ----------------- *)
Aarch64 ==
  /\ arch = "aarch64"
  /\ UNCHANGED <<arch, trap, us, mmu, idt, hw, ctx, st, pc, cur, nxt, log, pre, callRegs, fpOut,
                 initArgs>>

El2Write ==
  /\ writes < MaxWrites
  /\ writes' = writes + 1

\* host code writes a callee-saved register
HostWrite(r, v) ==
  /\ Aarch64 /\ El2Write
  /\ el2.pc = "host"
  /\ el2.x[r] # v
  /\ el2' = [el2 EXCEPT !.x[r] = v, !.kind = "none"]

\* host code masks or unmasks IRQs (PSTATE.I)
HostSetIrqMask(b) ==
  /\ Aarch64 /\ El2Write
  /\ el2.pc = "host"
  /\ el2.irq_masked # b
  /\ el2' = [el2 EXCEPT !.irq_masked = b, !.kind = "none"]

\* enter_geust() calls __run_guest(): no argument is passed, x0 holds what
\* the caller's code left in it; x30 is the return address of the call
EnterGuest(x0) ==
  /\ Aarch64
  /\ el2.pc = "host"
  /\ LET e == [el2 EXCEPT !.x["x30"] = RunGuestRet, !.x0 = x0, !.kind = "none",
                          !.ev = <<>>] IN
       el2' = [e EXCEPT !.pc = "entered",
                        !.call = [x |-> e.x, sp |-> e.sp, x0 |-> x0,
                                  irq_masked |-> e.irq_masked]]
  /\ UNCHANGED writes

\* save_regs_to_stack!(): sub sp, sp, 12 * 8; stp pairs at [sp + 8k]
StpLines ==
  {<<"x29", 10>>, <<"x30", 11>>, <<"x27", 8>>, <<"x28", 9>>, <<"x25", 6>>,
   <<"x26", 7>>, <<"x23", 4>>, <<"x24", 5>>, <<"x21", 2>>, <<"x22", 3>>,
   <<"x19", 0>>, <<"x20", 1>>}

SaveRegsToStack(e) ==
  LET sp1 == e.sp - SaveBytes IN
  [e EXCEPT !.sp = sp1,
            !.ev = e.ev \o <<<<"push", sp1>>>>,
            !.mem = [a \in Cells |->
                       IF \E l \in StpLines : a = sp1 + l[2] * RegBytes
                       THEN e.x[(CHOOSE l \in StpLines : a = sp1 + l[2] * RegBytes)[1]]
                       ELSE e.mem[a]]]

\* restore_regs_from_stack!(): ldp pairs from [sp + 8k]; add sp, sp, 12 * 8
LdpLines ==
  {<<"x19", 0>>, <<"x20", 1>>, <<"x21", 2>>, <<"x22", 3>>, <<"x23", 4>>,
   <<"x24", 5>>, <<"x25", 6>>, <<"x26", 7>>, <<"x27", 8>>, <<"x28", 9>>,
   <<"x29", 10>>, <<"x30", 11>>}

RestoreRegsFromStack(e) ==
  [e EXCEPT !.x = [r \in HostRegs |->
                     e.mem[e.sp + (CHOOSE l \in LdpLines : l[1] = r)[2] * RegBytes]],
            !.sp = e.sp + SaveBytes]

\* a variant of StoreHostStackTop that stores the sp of before the push
StoreHostStackTopCallerSp(e) ==
  LET a == e.x0 + SizeOfTrapFrame IN
  [e EXCEPT !.x9 = e.sp + SaveBytes, !.x0 = a, !.mem[a] = e.sp + SaveBytes,
            !.ev = e.ev \o <<<<"str", a, e.sp + SaveBytes>>>>]

\* __run_guest: mov x9, sp; add x0, x0, {host_stack_top_offset}; str x9, [x0]
StoreHostStackTop(e) ==
  LET a == e.x0 + SizeOfTrapFrame IN
  [e EXCEPT !.x9 = e.sp, !.x0 = a, !.mem[a] = e.sp,
            !.ev = e.ev \o <<<<"str", a, e.sp>>>>]

RunGuestSave ==
  /\ Aarch64
  /\ el2.pc = "entered"
  /\ el2' = [SaveRegsToStack(el2) EXCEPT !.pc = "saved"]
  /\ UNCHANGED writes

RunGuestStoreSp ==
  /\ Aarch64
  /\ el2.pc = "saved"
  /\ el2' = [StoreHostStackTop(el2) EXCEPT !.pc = "stored"]
  /\ UNCHANGED writes

\* b context_vm_entry: the guest's registers are loaded and the guest runs
RunGuestBranch ==
  /\ Aarch64
  /\ el2.pc = "stored"
  /\ el2' = [el2 EXCEPT !.pc = "guest",
                        !.ev = el2.ev \o <<<<"b", "context_vm_entry">>>>]
  /\ UNCHANGED writes

\* control arrives at the instruction that follows "b context_vm_entry"
ControlAfterBranch ==
  /\ Aarch64
  /\ el2.pc = "guest"
  /\ el2' = [el2 EXCEPT !.pc = "after_branch"]
  /\ UNCHANGED writes

\* a variant of RunGuestFallThrough that returns to the caller of __run_guest
RunGuestFallThroughRet(e) ==
  [e EXCEPT !.pc = "returned", !.ev = e.ev \o <<<<"ret", e.x["x30"]>>>>]

\* b {run_guest_panic}; run_guest_panic() -> ! { panic!("run_guest_panic") }
RunGuestFallThrough(e) ==
  [e EXCEPT !.pc = "panic", !.ev = e.ev \o <<<<"b", "run_guest_panic">>>>]

RunGuestPanic ==
  /\ Aarch64
  /\ el2.pc = "after_branch"
  /\ el2' = RunGuestFallThrough(el2)
  /\ UNCHANGED writes

\* the guest writes a register
GuestWrite(r, v) ==
  /\ Aarch64 /\ El2Write
  /\ el2.pc = "guest"
  /\ el2.x[r] # v
  /\ el2' = [el2 EXCEPT !.x[r] = v]

\* a VM exit: the exception vector has spilled the guest's registers into the
\* TrapFrame at the base of the vCPU structure, sp points to it, x0 holds the
\* exit code, and it branches to vmexit_trampoline
VmExit(code) ==
  /\ Aarch64
  /\ el2.pc = "guest"
  /\ el2' = [el2 EXCEPT !.pc = "exit", !.sp = VcpuBase, !.x0 = code,
                        !.irq_masked = TRUE]
  /\ UNCHANGED writes

\* vmexit_trampoline: add x9, sp, 34 * 8; ldr x10, [x9]; mov sp, x10;
\* restore_regs_from_stack!(); ret. The ret jumps to the restored x30: it
\* lands after the call in enter_geust only when x30 is that return address
VmexitTrampolineLoad(e) ==
  LET a == e.sp + TrampolineSkip IN
  [e EXCEPT !.x9 = a, !.x10 = e.mem[a], !.sp = e.mem[a],
            !.ev = e.ev \o <<<<"ldr", a, e.mem[a]>>>>]

\* the loaded stack pointer addresses a frame of twelve words inside memory
FrameInMemory(sp) == sp \in Cells /\ sp + SaveBytes - RegBytes \in Cells

VmexitTrampoline ==
  /\ Aarch64
  /\ el2.pc = "exit"
  /\ LET e == VmexitTrampolineLoad(el2) IN
       IF FrameInMemory(e.sp)
       THEN LET r == RestoreRegsFromStack(e) IN
              el2' = [r EXCEPT !.pc = IF r.x["x30"] = RunGuestRet
                                      THEN "returned" ELSE "wild"]
       ELSE el2' = [e EXCEPT !.pc = "wild"]
  /\ UNCHANGED writes

\* enter_geust: match __run_guest() { 0 => Synchronous, 1 => Irq, 2 => Fiq,
\* 3 => SError, _ => unreachable!() }
TrapKindOfCode(code) ==
  CASE code = 0 -> "Synchronous"
    [] code = 1 -> "Irq"
    [] code = 2 -> "Fiq"
    [] code = 3 -> "SError"
    [] OTHER -> "unreachable"

\* the ret of the trampoline lands after the call in enter_geust
EnterGuestReturn ==
  /\ Aarch64
  /\ el2.pc = "returned"
  /\ el2' = [el2 EXCEPT !.pc = "host", !.kind = TrapKindOfCode(el2.x0)]
  /\ UNCHANGED writes

\* the values x0 can hold when enter_geust calls __run_guest
X0AtCall == {VcpuBase, 0}
\* the exit codes the exception vector passes
ExitCodes == 0..3

(* ------------------------ arm: trap dispatcher ------------------------- *)
Arm ==
  /\ arch = "arm"
  /\ UNCHANGED <<arch, el2, us, mmu, idt, hw, ctx, st, pc, cur, nxt, log, pre, callRegs, fpOut,
                 initArgs, writes>>

\* the operator & on unsigned integers
RECURSIVE BitAnd(_, _)
BitAnd(a, b) ==
  IF a = 0 \/ b = 0 THEN 0
  ELSE (a % 2) * (b % 2) + 2 * BitAnd(a \div 2, b \div 2)

\* a variant of TrapKindOfNumber without the default arm
TrapKindOfNumberNoDefault(kind) ==
  CASE kind = 0 -> "Reset"
    [] kind = 1 -> "Undefined"
    [] kind = 2 -> "Svc"
    [] kind = 3 -> "PrefetchAbort"
    [] kind = 4 -> "DataAbort"
    [] kind = 5 -> "Reserved"
    [] kind = 6 -> "Irq"
    [] kind = 7 -> "Fiq"
    [] OTHER -> "unclassified"

\* invalid_exception: match kind { 0 => Reset, ..., 7 => Fiq, _ => Reserved }
TrapKindOfNumber(kind) ==
  CASE kind = 0 -> "Reset"
    [] kind = 1 -> "Undefined"
    [] kind = 2 -> "Svc"
    [] kind = 3 -> "PrefetchAbort"
    [] kind = 4 -> "DataAbort"
    [] kind = 5 -> "Reserved"
    [] kind = 6 -> "Irq"
    [] kind = 7 -> "Fiq"
    [] OTHER -> "Reserved"

\* the trap record at the entry of a handler
TrapFresh == [TrapIdle EXCEPT !.uspace = trap.uspace]

\* invalid_exception(tf, kind): decodes the kind and panics
InvalidException(tf, kind) ==
  /\ Arm
  /\ trap.pc = "run"
  /\ trap' = [TrapFresh EXCEPT !.pc = "panic", !.handler = "invalid",
                              !.tf0 = tf, !.tf = tf, !.num = kind,
                              !.kind = TrapKindOfNumber(kind),
                              !.panic = "Invalid exception"]

\* let is_user = (tf.cpsr & 0x1F) == 0x10
IsUser(cpsr) == BitAnd(cpsr, ModeMask) = UserMode

\* handle_trap!(PAGE_FAULT, vaddr, access_flags, is_user): one invocation of
\* the registered page-fault handler, which returns ret
HandleTrapPageFault(t, vaddr, access_flags, is_user, ret) ==
  [t EXCEPT !.calls = Append(@, [vaddr |-> vaddr, flags |-> access_flags,
                                 is_user |-> is_user, ret |-> ret])]

\* a variant of PanicUnlessHandled that panics when the handler returned true
PanicUnlessHandledInverted(t, handled) ==
  IF handled
  THEN [t EXCEPT !.pc = "panic", !.panic = "Unhandled page fault"]
  ELSE [t EXCEPT !.pc = "returned"]

\* a variant of PanicUnlessHandled that steps the frame's pc past the faulting
\* instruction when the fault was handled
PanicUnlessHandledSkip(t, handled) ==
  IF ~handled
  THEN [t EXCEPT !.pc = "panic", !.panic = "Unhandled page fault"]
  ELSE [t EXCEPT !.pc = "returned", !.tf.pc = 4 - @]

\* if !handle_trap!(PAGE_FAULT, ...) { panic!(...) }
PanicUnlessHandled(t, handled) ==
  IF ~handled
  THEN [t EXCEPT !.pc = "panic", !.panic = "Unhandled page fault"]
  ELSE [t EXCEPT !.pc = "returned"]

\* prefetch abort: access_flags = EXECUTE, |= USER if is_user
PrefetchAccessFlags(is_user) ==
  {"EXECUTE"} \cup (IF is_user THEN {"USER"} ELSE {})

\* handle_prefetch_abort_exception(tf); handled is what the page-fault
\* handler returns if it is invoked
HandlePrefetchAbortException(t, tf, ifsr, ifar, handled) ==
  LET t0 == [t EXCEPT !.handler = "prefetch_abort", !.fsr = ifsr,
                      !.far = ifar, !.tf0 = tf, !.tf = tf]
      fs == BitAnd(ifsr, FsMask)
      is_user == IsUser(tf.cpsr)
      access_flags == PrefetchAccessFlags(is_user)
  IN IF fs \in PageFaultFs
     THEN PanicUnlessHandled(
            HandleTrapPageFault(t0, ifar, access_flags, is_user, handled),
            handled)
     ELSE [t0 EXCEPT !.pc = "panic", !.panic = "Unhandled prefetch abort"]

\* a variant of DataAccessFlags that reports every data abort as a read
DataAccessFlagsRead(dfsr, is_user) ==
  {"READ"} \cup (IF is_user THEN {"USER"} ELSE {})

\* data abort: WRITE if (dfsr & (1 << 11)) != 0 else READ, |= USER if is_user
DataAccessFlags(dfsr, is_user) ==
  (IF BitAnd(dfsr, WnRBit) # 0 THEN {"WRITE"} ELSE {"READ"})
    \cup (IF is_user THEN {"USER"} ELSE {})

\* handle_data_abort_exception(tf)
HandleDataAbortException(t, tf, dfsr, dfar, handled) ==
  LET t0 == [t EXCEPT !.handler = "data_abort", !.fsr = dfsr,
                      !.far = dfar, !.tf0 = tf, !.tf = tf]
      fs == BitAnd(dfsr, FsMask)
      is_user == IsUser(tf.cpsr)
      access_flags == DataAccessFlags(dfsr, is_user)
  IN IF fs \in PageFaultFs
     THEN PanicUnlessHandled(
            HandleTrapPageFault(t0, dfar, access_flags, is_user, handled),
            handled)
     ELSE [t0 EXCEPT !.pc = "panic", !.panic = "Unhandled data abort"]

PrefetchAbort(tf, ifsr, ifar, handled) ==
  /\ Arm
  /\ trap.pc = "run"
  /\ trap' = HandlePrefetchAbortException(TrapFresh, tf, ifsr, ifar, handled)

DataAbort(tf, dfsr, dfar, handled) ==
  /\ Arm
  /\ trap.pc = "run"
  /\ trap' = HandleDataAbortException(TrapFresh, tf, dfsr, dfar, handled)

\* handle_trap!(IRQ, 0): one invocation of the registered interrupt handler
HandleTrapIrq(t, vector) == [t EXCEPT !.irq_calls = Append(@, vector)]

\* a variant of HandleIrqException that forwards IRQs from user mode only
HandleIrqExceptionUserOnly(t, tf) ==
  LET t0 == [t EXCEPT !.handler = "irq", !.tf0 = tf, !.tf = tf] IN
  IF IsUser(tf.cpsr)
  THEN [HandleTrapIrq(t0, IrqVector) EXCEPT !.pc = "returned"]
  ELSE [t0 EXCEPT !.pc = "panic", !.panic = "Unhandled IRQ"]

\* handle_irq_exception(_tf)
HandleIrqException(t, tf) ==
  LET t0 == [t EXCEPT !.handler = "irq", !.tf0 = tf, !.tf = tf] IN
  [HandleTrapIrq(t0, IrqVector) EXCEPT !.pc = "returned"]

IrqException(tf) ==
  /\ Arm
  /\ trap.pc = "run"
  /\ trap' = HandleIrqException(TrapFresh, tf)

\* the operator & on u32 values held as (hi, lo)
U32And(w, m) == [hi |-> BitAnd(w.hi, m.hi), lo |-> BitAnd(w.lo, m.lo)]
\* as usize
U32Value(w) == w.hi * 16777216 + w.lo

\* crate::trap::handle_syscall(tf, svc_num): one invocation of the registered
\* syscall handler, which leaves ret in the frame's return-value slot
HandleSyscall(t, num, ret) ==
  [t EXCEPT !.sys_calls = Append(@, [tf |-> t.tf, num |-> num]),
            !.tf.r0 = ret]

\* handle_sync_exception(tf); imem holds the instruction words, ret is what
\* the syscall handler leaves in the frame if it is invoked
HandleSyncException(t, tf, imem, ret) ==
  LET t0 == [t EXCEPT !.handler = "sync", !.tf0 = tf, !.tf = tf,
                      !.imem = imem]
      svc_num == U32Value(U32And(imem[tf.pc], SvcMask))
      t1 == [t0 EXCEPT !.num = svc_num]
  IN IF t.uspace
     THEN [HandleSyscall(t1, svc_num, ret) EXCEPT !.pc = "returned"]
     ELSE [t1 EXCEPT !.pc = "panic", !.panic = "uspace feature not enabled"]

SyncException(tf, imem, ret) ==
  /\ Arm
  /\ trap.pc = "run"
  /\ trap' = HandleSyncException(TrapFresh, tf, imem, ret)

\* the handler returned: the interrupted code runs until the next trap
TrapReturn ==
  /\ Arm
  /\ trap.pc = "returned"
  /\ trap' = TrapFresh

\* the raw kind numbers the exception vectors pass to invalid_exception
KindNumbers == 0..MaxKind
\* fault status register values: FS[3:0], bit 10 (FS[4]) and bit 11 (WnR)
FaultStatus ==
  {f + 1024 * e + WnRBit * w : f \in 0..15, e \in 0..1, w \in 0..1}
\* cpsr values: mode usr (0x10), svc (0x13) or sys (0x1f), with or without
\* the T bit (0x20)
CpsrValues == {m + 32 * b : m \in {16, 19, 31}, b \in 0..1}
\* the TrapFrames a handler is entered with
Frames == [pc : PcValues, cpsr : CpsrValues, r0 : Word]
\* instruction words: SVC (0xEF000000 | imm24) with three immediates
InstrWords == [hi : {239}, lo : {1, 257, 16777215}]
\* traps are taken on an arm build only
ArmFrames == IF arch = "arm" /\ trap.pc = "run" THEN Frames ELSE {}

(* ------------- riscv64 / loongarch64: user-space entry ----------------- *)
Uspace ==
  /\ arch \in {"riscv64/uspace", "loongarch64"}
  /\ UNCHANGED <<arch, el2, trap, mmu, idt, hw, ctx, st, pc, cur, nxt, log,
                 pre, callRegs, fpOut, initArgs, writes>>

\* bit b (a power of two) of v is set
BitSet(v, b) == (v \div b) % 2 = 1

\* riscv UspaceContext::new: sstatus = from_bits(0), set_spie, set_sum,
\* set_fs(Initial); regs a0 and sp, the rest Default; sepc = entry.
\* The word after the frame is not part of it and holds after
RiscvUspaceNew(entry, ustack_top, arg0, after) ==
  [i \in FrameSlots |->
     CASE i = SlotOf(RiscvRegs, "a0") -> arg0
       [] i = SlotOf(RiscvRegs, "sp") -> ustack_top
       [] i = RiscvSepcSlot -> entry
       [] i = RiscvSstatusSlot -> SstatusSpie + SstatusSum + SstatusFsInitial
       [] i >= RiscvFrameWords -> after
       [] OTHER -> 0]

\* a variant of LoongUspaceNew that leaves PIE clear in prmd
LoongUspaceNewNoPie(entry, ustack_top, arg0) ==
  [i \in FrameSlots |->
     CASE i = SlotOf(LoongRegs, "sp") -> ustack_top
       [] i = LoongEraSlot -> entry
       [] i = LoongPrmdSlot -> PplvUmode
       [] i = SlotOf(LoongRegs, "a0") -> arg0
       [] OTHER -> 0]

\* loongarch64 UspaceContext::new
LoongUspaceNew(entry, ustack_top, arg0) ==
  [i \in FrameSlots |->
     CASE i = SlotOf(LoongRegs, "sp") -> ustack_top
       [] i = LoongEraSlot -> entry
       [] i = LoongPrmdSlot -> PplvUmode + Pie
       [] i = SlotOf(LoongRegs, "a0") -> arg0
       [] OTHER -> 0]

\* UspaceContext::new(entry, ustack_top, arg0)
UsNew(entry, ustack_top, arg0, after) ==
  /\ Uspace
  /\ us.pc = "kernel"
  /\ us' = [us EXCEPT
              !.pc = "built",
              !.args = [entry |-> entry, ustack_top |-> ustack_top,
                        arg0 |-> arg0],
              !.mem = IF arch = "riscv64/uspace"
                      THEN RiscvUspaceNew(entry, ustack_top, arg0, after)
                      ELSE LoongUspaceNew(entry, ustack_top, arg0)]

\* enter_uspace(kstack_top): crate::asm::disable_irqs()
UsDisableIrqs(kstack_top) ==
  /\ Uspace
  /\ us.pc = "built"
  /\ us' = [us EXCEPT !.pc = "masked", !.kstack_top = kstack_top,
                      !.ie = FALSE, !.ev = <<<<"disable_irqs">>>>]

\* sscratch::write(kstack_top) / crate::asm::write_kernel_sp(kstack_top)
UsPublishKstack ==
  /\ Uspace
  /\ us.pc = "masked"
  /\ us' = [us EXCEPT !.pc = "published", !.ksp = us.kstack_top,
                      !.ev = Append(@, <<"kernel_sp", us.kstack_top>>)]

\* the frame's program counter: self.0.sepc / self.ip()
FramePc(a, mem) ==
  IF a = "riscv64/uspace" THEN mem[RiscvSepcSlot] ELSE mem[LoongEraSlot]

\* sepc::write(self.0.sepc) / era::set_pc(self.ip())
UsWriteEpc ==
  /\ Uspace
  /\ us.pc = "published"
  /\ us' = [us EXCEPT !.pc = "epc", !.epc = FramePc(arch, us.mem),
                      !.ev = Append(@, <<"epc", FramePc(arch, us.mem)>>)]

\* POP_GENERAL_REGS (riscv): the general registers other than sp, gp and tp
\* are loaded from their slots of the frame
RiscvPopGeneralRegs(u) ==
  [u EXCEPT !.x = [r \in DOMAIN u.x |->
                     IF r \in {"sp", "gp", "tp", "r21"} THEN u.x[r]
                     ELSE u.mem[SlotOf(RiscvRegs, r)]]]

\* riscv enter_uspace, the asm block: mv sp, {tf};
\* STR gp, {kernel_trap_addr}, 3; LDR gp, sp, 3; STR tp, {kernel_trap_addr}, 4;
\* LDR tp, sp, 4; LDR t0, sp, 33; csrw sstatus, t0; POP_GENERAL_REGS;
\* LDR sp, sp, 2; sret
RiscvEnterAsm(u) ==
  LET u1 == [u EXCEPT !.x["gp"] = u.mem[3], !.x["tp"] = u.mem[4],
                      !.ev = @ \o <<<<"kstore", 3, u.x["gp"]>>,
                                    <<"kstore", 4, u.x["tp"]>>>>]
      t0 == u.mem[33]
      u2 == [u1 EXCEPT !.status = t0, !.ie = BitSet(t0, SstatusSie),
                       !.ev = Append(@, <<"status", t0>>)]
      u3 == RiscvPopGeneralRegs(u2)
      u4 == [u3 EXCEPT !.x["sp"] = u.mem[2]]
  IN [u4 EXCEPT !.pc = "user", !.upc = u4.epc,
                !.priv = IF BitSet(u4.status, SstatusSpp) THEN "S" ELSE "U",
                !.ie = BitSet(u4.status, SstatusSpie),
                !.ev = Append(@, <<"ret", u4.epc>>)]

\* POP_GENERAL_REGS (loongarch64)
LoongPopGeneralRegs(u) ==
  [u EXCEPT !.x = [r \in DOMAIN u.x |->
                     IF r \in {"sp", "gp", "tp", "r21"} THEN u.x[r]
                     ELSE u.mem[SlotOf(LoongRegs, r)]]]

\* loongarch64 enter_uspace, the asm block: move $sp, {tf};
\* csrwr $tp, KSAVE_TP; csrwr $r21, KSAVE_R21; LDD $tp, $sp, 32;
\* csrwr $tp, LA_CSR_PRMD; POP_GENERAL_REGS; LDD $tp, $sp, 2;
\* LDD $r21, $sp, 21; LDD $sp, $sp, 3; ertn
LoongEnterAsm(u) ==
  LET prmd == u.mem[32]
      u1 == [u EXCEPT !.status = prmd,
                      !.ev = @ \o <<<<"ksave", "tp", u.x["tp"]>>,
                                    <<"ksave", "r21", u.x["r21"]>>,
                                    <<"status", prmd>>>>]
      u2 == LoongPopGeneralRegs(u1)
      u3 == [u2 EXCEPT !.x["tp"] = u.mem[2], !.x["r21"] = u.mem[21],
                       !.x["sp"] = u.mem[3]]
  IN [u3 EXCEPT !.pc = "user", !.upc = u3.epc,
                !.priv = IF u3.status % 4 = PplvUmode THEN "U" ELSE "S",
                !.ie = BitSet(u3.status, Pie),
                !.ev = Append(@, <<"ret", u3.epc>>)]

\* the asm block of enter_uspace (options(noreturn))
UsEnterAsm ==
  /\ Uspace
  /\ us.pc = "epc"
  /\ us' = IF arch = "riscv64/uspace" THEN RiscvEnterAsm(us)
           ELSE LoongEnterAsm(us)

\* the values of entry, ustack_top, arg0 and kstack_top
UserWord == 1..MaxUser
\* the values the word after a riscv TrapFrame can hold
AfterFrame == {0, SstatusSpp + SstatusSie}

(* --------------------------- arm: init_mmu ----------------------------- *)
ArmInit ==
  /\ arch = "arm/init"
  /\ UNCHANGED <<arch, el2, trap, us, idt, hw, ctx, st, pc, cur, nxt, log, pre,
                 callRegs, fpOut, initArgs, writes>>

\* a variant of InitMmuProgram that enables the MMU before the TLB invalidate
InitMmuProgramEnableFirst ==
  <<"ttbr0", "ttbr1", "ttbcr", "dacr", "sctlr", "dsb", "isb", "tlbiall",
    "dsb", "isb">>

\* the statements of init_mmu, in program order
InitMmuProgram ==
  <<"ttbr0", "ttbr1", "ttbcr", "dacr", "tlbiall", "dsb", "isb", "sctlr",
    "dsb", "isb">>

\* the effect of one statement of init_mmu
InitMmuExec(m, op) ==
  LET m1 == [m EXCEPT !.ev = Append(@, op)] IN
  CASE op = "ttbr0" -> [m1 EXCEPT !.ttbr0 = m.root, !.written = @ \cup {op}]
    [] op = "ttbr1" -> [m1 EXCEPT !.ttbr1 = m.root, !.written = @ \cup {op}]
    [] op = "ttbcr" -> [m1 EXCEPT !.ttbcr = TtbcrValue, !.written = @ \cup {op}]
    [] op = "dacr" -> [m1 EXCEPT !.dacr = DacrValue, !.written = @ \cup {op}]
    [] op = "tlbiall" -> [m1 EXCEPT !.tlb_stale = FALSE]
    [] op = "sctlr" -> [m1 EXCEPT !.sctlr = [m |-> TRUE, c |-> TRUE, i |-> TRUE]]
    [] op \in {"dsb", "isb"} -> m1

\* init_mmu(root_paddr) is called
InitMmuCall(root) ==
  /\ ArmInit
  /\ mmu.pc = 0
  /\ mmu.ev = <<>>
  /\ mmu' = [mmu EXCEPT !.root = root, !.ev = <<"call">>]

\* the next statement of init_mmu
InitMmuStep ==
  /\ ArmInit
  /\ mmu.ev # <<>>
  /\ mmu.pc < Len(InitMmuProgram)
  /\ mmu' = [InitMmuExec(mmu, InitMmuProgram[mmu.pc + 1]) EXCEPT !.pc = mmu.pc + 1]

(* ------------------------- x86_64: IdtStruct::new ---------------------- *)
X86 ==
  /\ arch = "x86_64"
  /\ UNCHANGED <<arch, el2, trap, us, mmu, hw, ctx, st, pc, cur, nxt, log, pre,
                 callRegs, fpOut, initArgs, writes>>

\* trap_handler_table: ENTRIES[i]
TrapHandlerTable(i) == i

\* entries[i].set_handler_fn(ENTRIES[i]); Ring3 if i == 0x3 || i == 0x80
IdtSetEntry(table, i) ==
  [table EXCEPT ![i] = [present |-> TRUE, handler |-> TrapHandlerTable(i),
                        dpl |-> IF i \in UserVectors THEN Ring3 ELSE Ring0]]

\* IdtStruct::new() begins with InterruptDescriptorTable::new()
IdtNew ==
  /\ X86
  /\ idt.pc = "none"
  /\ idt' = [IdtEmpty EXCEPT !.pc = "loop"]

\* one iteration of for i in 0..NUM_INT
IdtNewStep ==
  /\ X86
  /\ idt.pc = "loop"
  /\ idt.i < NumInt
  /\ idt' = [idt EXCEPT !.table = IdtSetEntry(idt.table, idt.i), !.i = idt.i + 1]

\* the loop is over: new() returns the table
IdtNewReturn ==
  /\ X86
  /\ idt.pc = "loop"
  /\ idt.i = NumInt
  /\ idt' = [idt EXCEPT !.pc = "built"]

(* ------------------------------- Next --------------------------------- *)
Next ==
  \/ \E t \in Tasks : New(t)
  \/ \E t \in Tasks, e \in Word, k \in Word, l \in Word : InitCtx(t, e, k, l)
  \/ \E t \in Tasks, r \in Roots : SetPageTableRoot(t, r)
  \/ \E r \in Regs, v \in Word : Clobber(r, v)
  \/ \E i \in FpIdx, v \in Word : FpWrite(i, v)
  \/ \E v \in Word : FcsrWrite(v)
  \/ \E b \in BOOLEAN : SetSie(b)
  \/ \E b \in Tasks : Call(b)
  \/ StepTls
  \/ StepSatp
  \/ StepFp
  \/ StepRaw
  \/ \E r \in HostRegs, v \in Word : HostWrite(r, v)
  \/ \E b \in BOOLEAN : HostSetIrqMask(b)
  \/ \E x0 \in X0AtCall : EnterGuest(x0)
  \/ RunGuestSave
  \/ RunGuestStoreSp
  \/ RunGuestBranch
  \/ ControlAfterBranch
  \/ RunGuestPanic
  \/ \E r \in HostRegs, v \in Word : GuestWrite(r, v)
  \/ \E code \in ExitCodes : VmExit(code)
  \/ VmexitTrampoline
  \/ EnterGuestReturn
  \/ \E tf \in ArmFrames, k \in KindNumbers : InvalidException(tf, k)
  \/ \E tf \in ArmFrames, f \in FaultStatus, a \in Word, h \in BOOLEAN :
       PrefetchAbort(tf, f, a, h)
  \/ \E tf \in ArmFrames, f \in FaultStatus, a \in Word, h \in BOOLEAN :
       DataAbort(tf, f, a, h)
  \/ \E tf \in ArmFrames : IrqException(tf)
  \/ \E tf \in ArmFrames, imem \in [PcValues -> InstrWords], ret \in Word :
       SyncException(tf, imem, ret)
  \/ TrapReturn
  \/ \E e \in UserWord, u \in UserWord, a \in UserWord, w \in AfterFrame :
       UsNew(e, u, a, w)
  \/ \E k \in UserWord : UsDisableIrqs(k)
  \/ UsPublishKstack
  \/ UsWriteEpc
  \/ UsEnterAsm
  \/ \E r \in UserWord : InitMmuCall(r)
  \/ InitMmuStep
  \/ IdtNew
  \/ IdtNewStep
  \/ IdtNewReturn

Spec == Init /\ [][Next]_vars

(* ------------------------------ claims -------------------------------- *)
Landed == pc = "landed"
Last(q) == q[Len(q)]
EventsNamed(n) == {i \in 1..Len(log) : log[i][1] = n}

\* C1: round trip of the task switch. When a task that was suspended in
\* switch_to is switched back in, ra, sp and s0..s11 hold exactly the values
\* they held when that task called context_switch, whatever the other flow
\* left in them.
C1_RoundTrip ==
  (Landed /\ pre.st[nxt] = "suspended") =>
    \A r \in CalleeSaved : hw.x[r] = callRegs[nxt][r]

\* a task resumes and gets back a register value that differs from the one
\* the outgoing flow held in that register
C1_Witness ==
  /\ Landed
  /\ pre.st[nxt] = "suspended"
  /\ \E r \in CalleeSaved \ {"ra"} : hw.x[r] # pre.hw.x[r]

\* C2: after the FP step of any switch_to, the FP tag stored in the outgoing
\* context is never Dirty, whatever the hardware FS state was at the call.
C2_OutgoingNotDirty ==
  (pc \in {"raw", "landed"}) => ctx[cur].fs # "Dirty"

\* a switch completed that was called with the hardware FS state Dirty
C2_Witness == Landed /\ pre.hw.fs = "Dirty"

\* C3: the panic branch of switch_to ("FP state of the next task should not
\* be dirty") is never reached.
C3_NoDirtyPanic == pc # "panic"

\* a context whose bank was spilled from a Dirty FPU is switched into
C3_Witness ==
  /\ Landed
  /\ pre.ctx[nxt].fs = "Clean"
  /\ \E i \in FpMem : pre.ctx[nxt].fpm[i] # 0

\* C4: after the FP step, a Clean next tag means the hardware FP registers and
\* fcsr equal next's saved bank and FS is Clean; an Initial tag means all
\* hardware FP registers are zero and FS is Initial.
C4_FpRestoreByTag ==
  (pc \in {"raw", "landed"}) =>
    /\ (ctx[nxt].fs = "Clean" =>
          /\ \A i \in FpIdx : hw.f[i] = ctx[nxt].fpm[i]
          /\ hw.fcsr = ctx[nxt].fpm[FcsrSlot]
          /\ hw.fs = "Clean")
    /\ (ctx[nxt].fs = "Initial" =>
          /\ \A i \in FpIdx : hw.f[i] = 0
          /\ hw.fs = "Initial")

\* the FP step replaced FP register values of the outgoing task
C4_Witness ==
  /\ pc = "raw"
  /\ ctx[nxt].fs \in {"Clean", "Initial"}
  /\ \E i \in FpIdx : pre.hw.f[i] # hw.f[i]

\* C5: with equal roots switch_to writes no root and flushes nothing; with
\* different roots it performs exactly one root write, of next's satp,
\* followed by exactly one flush of the entire TLB.
C5_AddressSpaceSkip ==
  (pc \in {"fp", "raw", "landed"}) =>
    IF pre.ctx[cur].satp = pre.ctx[nxt].satp
    THEN /\ EventsNamed("satp_write") = {}
         /\ EventsNamed("tlb_flush") = {}
         /\ hw.satp = pre.hw.satp
    ELSE /\ Cardinality(EventsNamed("satp_write")) = 1
         /\ Cardinality(EventsNamed("tlb_flush")) = 1
         /\ \A i \in EventsNamed("satp_write") :
              /\ log[i] = <<"satp_write", pre.ctx[nxt].satp>>
              /\ log[i + 1] = <<"tlb_flush", "all">>
         /\ hw.satp = pre.ctx[nxt].satp

\* a switch between two contexts with equal roots completed
C5_Witness ==
  /\ Landed
  /\ pre.ctx[cur].satp = pre.ctx[nxt].satp
  /\ pre.ctx[cur].satp # KernelRoot

\* C6: after switch_to the hardware page-table root holds next.satp, also when
\* set_page_table_root was called on the running task's own context.
C6_HwRootIsNextRoot == Landed => hw.satp = ctx[nxt].satp

\* C7: the effects of switch_to occur in the order TLS, address space, FP,
\* raw exchange; the raw exchange is last.
PhaseOf(e) ==
  CASE e[1] \in {"tp_read", "tp_write"} -> 1
    [] e[1] \in {"satp_write", "tlb_flush"} -> 2
    [] e[1] \in {"fp_save", "fp_restore", "fp_clear", "fs_set"} -> 3
    [] e[1] \in {"regs_store", "regs_load", "ret"} -> 4

C7_FixedOrder ==
  /\ \A i, j \in 1..Len(log) : i < j => PhaseOf(log[i]) <= PhaseOf(log[j])
  /\ Landed => /\ Last(log)[1] = "ret"
               /\ log[1][1] = "tp_read"
               /\ log[2][1] = "tp_write"
  /\ pc \in {"satp", "fp", "raw"} => \A i \in 1..Len(log) : PhaseOf(log[i]) < 4
  /\ pc \in {"satp", "fp"} => \A i \in 1..Len(log) : PhaseOf(log[i]) < 3
  /\ pc = "satp" => \A i \in 1..Len(log) : PhaseOf(log[i]) < 2

\* a switch completed in which all four effects took place
C7_Witness ==
  /\ Landed
  /\ \A p \in 1..4 : \E i \in 1..Len(log) : PhaseOf(log[i]) = p

\* C8 (as stated): interrupts are masked before the page-table root write and
\* before context_switch in switch_to, and before __run_guest transfers to
\* the guest entry.
C8_MaskedBeforeSwitch ==
  /\ (arch = "riscv64" /\ pc \in {"satp", "fp", "raw"}) => ~hw.sie
  /\ (arch = "aarch64" /\ el2.pc \in {"saved", "stored"}) => el2.irq_masked

\* C8 (amended): switch_to and __run_guest do not mask interrupts themselves.
\* At every step of switch_to up to the completion of context_switch, and at
\* every step of __run_guest up to the transfer to the guest entry, the
\* interrupt-enable state is the one the caller left: interrupts are masked
\* there exactly when the caller called with interrupts masked.
C8_MaskLeftToCaller ==
  /\ (arch = "riscv64" /\ pc \in {"tls", "satp", "fp", "raw", "landed"}) =>
        hw.sie = pre.hw.sie
  /\ (arch = "aarch64" /\ el2.pc \in {"entered", "saved", "stored", "guest"}) =>
        el2.irq_masked = el2.call.irq_masked

\* switch_to writes the page-table root with interrupts enabled
C8_Witness ==
  /\ arch = "riscv64"
  /\ pc = "fp"
  /\ EventsNamed("satp_write") # {}
  /\ hw.sie

\* C9: a task suspended in switch_to runs again only when a switch_to that
\* names its context as next completes, and then at the return address its
\* own call of context_switch saved.
C9_SuspendResume ==
  [][\A t \in Tasks :
       (st[t] = "suspended" /\ st'[t] # "suspended") =>
         /\ pc = "raw"
         /\ nxt = t
         /\ st'[t] = "running"
         /\ Last(log') = <<"ret", callRegs[t]["ra"]>>
         /\ callRegs[t]["ra"] = SwitchRet]_vars

\* a suspended task was resumed at the return address of its call
C9_Witness ==
  /\ Landed
  /\ pre.st[nxt] = "suspended"
  /\ Last(log) = <<"ret", SwitchRet>>
  /\ hw.x["sp"] # SwitchRet

\* C10: the first switch into a context initialised by init(entry,
\* kstack_top, tls_area) transfers control to entry with sp = kstack_top and
\* tp = tls_area.
C10_FirstSwitch ==
  (Landed /\ pre.st[nxt] = "ready") =>
    /\ Last(log) = <<"ret", initArgs[nxt].entry>>
    /\ hw.x["sp"] = initArgs[nxt].kstack_top
    /\ hw.x["tp"] = initArgs[nxt].tls_area

\* a first switch into a context whose entry, stack and TLS area differ
C10_Witness ==
  /\ Landed
  /\ pre.st[nxt] = "ready"
  /\ initArgs[nxt].entry # initArgs[nxt].kstack_top
  /\ initArgs[nxt].kstack_top # initArgs[nxt].tls_area

\* C11: TLS hand-over. After the TLS step of switch_to(current, next) the
\* thread pointer stored in current is the hardware tp at the moment of the
\* call (not the value current held before), the hardware tp is next's stored
\* tp, and the read of the hardware tp precedes the write of next's.
C11_TlsHandOver ==
  (pc \in {"satp", "fp", "raw", "landed"}) =>
    /\ ctx[cur].w[Off.tp] = pre.hw.x["tp"]
    /\ hw.x["tp"] = pre.ctx[nxt].w[Off.tp]
    /\ log[1] = <<"tp_read", pre.hw.x["tp"]>>
    /\ log[2] = <<"tp_write", pre.ctx[nxt].w[Off.tp]>>
    /\ Cardinality(EventsNamed("tp_read")) = 1
    /\ Cardinality(EventsNamed("tp_write")) = 1

\* a switch completed whose caller's hardware tp differed both from the value
\* stored in current before the call and from next's stored tp
C11_Witness ==
  /\ Landed
  /\ pre.hw.x["tp"] # pre.ctx[cur].w[Off.tp]
  /\ pre.hw.x["tp"] # pre.ctx[nxt].w[Off.tp]

\* C12: round trip of the world switch. For every host register state at the
\* call, enter_geust followed by a VM exit returns to the caller of
\* __run_guest with x19..x30 and sp equal to their values at the call,
\* whatever the guest did, and enter_geust returns the TrapKind of the exit
\* code (0 Synchronous, 1 Irq, 2 Fiq, 3 SError).
C12_WorldSwitchRoundTrip ==
  /\ el2.pc # "wild"
  /\ el2.pc = "returned" =>
       /\ \A r \in HostRegs : el2.x[r] = el2.call.x[r]
       /\ el2.sp = el2.call.sp
  /\ (el2.pc = "host" /\ el2.kind # "none") =>
       /\ el2.sp = el2.call.sp
       /\ el2.kind = CASE el2.x0 = 0 -> "Synchronous"
                       [] el2.x0 = 1 -> "Irq"
                       [] el2.x0 = 2 -> "Fiq"
                       [] el2.x0 = 3 -> "SError"

\* C13: Enter and Exit agree on the host-stack-pointer slot. The address
\* vmexit_trampoline loads the host sp from (sp at the exit, the base of the
\* guest TrapFrame storage, plus 34 * 8) is the address __run_guest stored it
\* to (its vCPU pointer plus size_of::<TrapFrame>()).
C13_SlotAddressAgrees ==
  el2.pc = "exit" =>
    el2.sp + TrampolineSkip = el2.call.x0 + SizeOfTrapFrame

\* C14: order of Enter. __run_guest first pushes the twelve host registers
\* x19..x30, then stores the resulting sp (the caller's sp minus 96) into the
\* slot at the fixed displacement from the pointer it was given in x0, and
\* only then branches to the guest entry: the slot is written before any
\* guest register is loaded.
C14_EnterOrder ==
  /\ el2.pc \in {"saved", "stored", "guest"} =>
       /\ el2.ev[1] = <<"push", el2.call.sp - 96>>
       /\ el2.sp = el2.call.sp - 96
       /\ \A l \in StpLines :
            el2.mem[el2.call.sp - 96 + l[2] * 8] = el2.call.x[l[1]]
  /\ el2.pc = "saved" => Len(el2.ev) = 1
  /\ el2.pc \in {"stored", "guest"} =>
       /\ el2.ev[2] = <<"str", el2.call.x0 + SizeOfTrapFrame, el2.call.sp - 96>>
       /\ el2.mem[el2.call.x0 + SizeOfTrapFrame] = el2.call.sp - 96
  /\ el2.pc = "stored" => Len(el2.ev) = 2
  /\ el2.pc = "guest" =>
       /\ el2.ev[3] = <<"b", "context_vm_entry">>
       /\ Len(el2.ev) = 3

\* the guest was entered with the vCPU pointer in x0 and a host register
\* that the host had written
C14_Witness ==
  /\ el2.pc = "guest"
  /\ el2.call.x0 = VcpuBase
  /\ \E r \in HostRegs \ {"x30"} : el2.call.x[r] # 0

\* C15: validity of the host/guest boundary record. Every load of the slot by
\* vmexit_trampoline is preceded by a store to that same slot by the
\* __run_guest of the same entry, with the branch to the guest between them
\* and no other exit in between, and the value loaded is the value stored; a
\* stored value is consumed by at most one exit.
C15_SlotReadAfterWrite ==
  \A i \in 1..Len(el2.ev) :
    el2.ev[i][1] = "ldr" =>
      /\ i = 4
      /\ el2.ev[2] = <<"str", el2.ev[i][2], el2.ev[i][3]>>
      /\ el2.ev[3][1] = "b"

\* C16: if control reaches the instruction after the branch to the guest
\* entry in __run_guest, the only outcome is the fatal panic run_guest_panic:
\* no value is returned to enter_geust along that path and nothing resumes
\* after the panic.
C16_FallThroughPanics ==
  [][/\ el2.pc = "after_branch" =>
          /\ el2'.pc = "panic"
          /\ Last(el2'.ev) = <<"b", "run_guest_panic">>
          /\ el2'.kind = "none"
     /\ el2.pc = "panic" => el2' = el2]_vars

\* run_guest_panic was reached from the instruction after the branch
C16_Witness ==
  /\ el2.pc = "panic"
  /\ Last(el2.ev) = <<"b", "run_guest_panic">>

\* C17: trap classification is total. Every exit code enter_geust receives
\* (0..3) and every raw kind number invalid_exception receives is mapped to
\* exactly one TrapKind of the architecture, none is left unclassified:
\* 0..3 to Synchronous, Irq, Fiq, SError; 0..7 to Reset, Undefined, Svc,
\* PrefetchAbort, DataAbort, Reserved, Irq, Fiq and any other number to
\* Reserved.
C17_ClassificationTotal ==
  /\ (arch = "aarch64" /\ el2.pc = "host" /\ el2.kind # "none") =>
       /\ el2.x0 \in 0..3
       /\ el2.kind = <<"Synchronous", "Irq", "Fiq", "SError">>[el2.x0 + 1]
  /\ (arch = "arm" /\ trap.handler = "invalid") =>
       /\ trap.kind \in {"Reset", "Undefined", "Svc", "PrefetchAbort",
                         "DataAbort", "Reserved", "Irq", "Fiq"}
       /\ trap.num <= 7 =>
            trap.kind = <<"Reset", "Undefined", "Svc", "PrefetchAbort",
                          "DataAbort", "Reserved", "Irq", "Fiq">>[trap.num + 1]
       /\ trap.num > 7 => trap.kind = "Reserved"

\* invalid_exception received a kind number that is none of the eight
\* numbered kinds
C17_Witness ==
  /\ trap.handler = "invalid"
  /\ trap.num > 7
  /\ trap.kind = "Reserved"

\* C18: page-fault flags. For a data abort whose fault status (low four bits)
\* is a translation or permission fault, the flags passed to the page-fault
\* handler are exactly one of READ / WRITE (WRITE iff bit 11 of the status is
\* set) plus USER iff the mode field of the frame's cpsr is user mode, and
\* nothing else; a write from user mode with a second-level translation fault
\* gives exactly {WRITE, USER}. For a prefetch abort the flags are {EXECUTE}
\* plus USER iff user mode.
C18_PageFaultFlags ==
  (trap.handler \in {"data_abort", "prefetch_abort"}
     /\ trap.fsr % 16 \in {5, 7, 13, 15}) =>
    LET user == IF trap.tf.cpsr % 32 = 16 THEN {"USER"} ELSE {}
        write == (trap.fsr \div 2048) % 2 = 1
    IN /\ Len(trap.calls) >= 1
       /\ \A i \in 1..Len(trap.calls) :
            /\ trap.calls[i].vaddr = trap.far
            /\ trap.calls[i].is_user = (user # {})
            /\ trap.handler = "data_abort" =>
                 trap.calls[i].flags =
                   (IF write THEN {"WRITE"} ELSE {"READ"}) \cup user
            /\ trap.handler = "prefetch_abort" =>
                 trap.calls[i].flags = {"EXECUTE"} \cup user
            /\ (trap.handler = "data_abort" /\ write /\ user # {}
                  /\ trap.fsr % 16 = 7) =>
                 trap.calls[i].flags = {"WRITE", "USER"}

\* a write from user mode hit a second-level translation fault
C18_Witness ==
  /\ trap.handler = "data_abort"
  /\ trap.fsr % 16 = 7
  /\ (trap.fsr \div 2048) % 2 = 1
  /\ trap.tf.cpsr % 32 = 16
  /\ Len(trap.calls) = 1
  /\ trap.calls[1].flags = {"WRITE", "USER"}

\* C19: for a data or prefetch abort recognised as a page fault, the
\* page-fault handler is invoked exactly once; the dispatcher panics exactly
\* when the handler returned false and returns normally when it returned true.
C19_PageFaultOutcome ==
  (trap.handler \in {"data_abort", "prefetch_abort"}
     /\ trap.fsr % 16 \in {5, 7, 13, 15}) =>
    /\ Len(trap.calls) = 1
    /\ trap.pc \in {"returned", "panic"}
    /\ trap.pc = "panic" <=> ~trap.calls[1].ret
    /\ trap.pc = "returned" <=> trap.calls[1].ret

\* the page-fault handler was invoked once, returned false, and the
\* dispatcher panicked
C19_Witness ==
  /\ trap.handler = "prefetch_abort"
  /\ Len(trap.calls) = 1
  /\ ~trap.calls[1].ret
  /\ trap.pc = "panic"

\* C20: invalid_exception (every Reserved or invalid trap) and every data or
\* prefetch abort whose fault status (low four bits) is not a translation or
\* permission fault end in a panic for all inputs, and the page-fault handler
\* is not invoked.
C20_UnrecognisedPanics ==
  (\/ trap.handler = "invalid"
   \/ /\ trap.handler \in {"data_abort", "prefetch_abort"}
      /\ trap.fsr % 16 \notin {5, 7, 13, 15}) =>
    /\ trap.pc = "panic"
    /\ trap.calls = <<>>

\* a data abort with an alignment fault status from user mode ended in a panic
C20_Witness ==
  /\ trap.handler = "data_abort"
  /\ trap.fsr % 16 = 1
  /\ trap.tf.cpsr % 32 = 16
  /\ trap.pc = "panic"

\* C21: syscall dispatch. On an SVC trap the syscall number is the low 24
\* bits of the instruction word at the frame's pc; (frame, number) is passed
\* to the syscall handler, once, only when the crate is built with user-space
\* support; without it the trap ends in a panic and no handler is called.
C21_SyscallDispatch ==
  trap.handler = "sync" =>
    /\ trap.num = trap.imem[trap.tf0.pc].lo % 16777216
    /\ trap.uspace =>
         /\ trap.sys_calls = <<[tf |-> trap.tf0, num |-> trap.num]>>
         /\ trap.pc = "returned"
    /\ ~trap.uspace =>
         /\ trap.sys_calls = <<>>
         /\ trap.pc = "panic"
    /\ trap.calls = <<>>
    /\ trap.irq_calls = <<>>

\* an SVC whose immediate does not fit in 8 bits, at the second instruction
\* word, the other word holding a different immediate, was forwarded
C21_Witness ==
  /\ trap.handler = "sync"
  /\ trap.uspace
  /\ trap.tf0.pc = 4
  /\ trap.imem[4].lo = 257
  /\ trap.imem[0].lo = 1
  /\ Len(trap.sys_calls) = 1
  /\ trap.sys_calls[1].num = 257

\* C22: an IRQ trap is forwarded to the interrupt handler exactly once with no
\* further decoding, whatever the TrapFrame holds, and never ends in a panic.
C22_IrqForwarded ==
  trap.handler = "irq" =>
    /\ trap.irq_calls = <<0>>
    /\ trap.pc = "returned"
    /\ trap.panic = "none"
    /\ trap.calls = <<>>
    /\ trap.sys_calls = <<>>

\* an IRQ taken in a privileged mode was forwarded
C22_Witness ==
  /\ trap.handler = "irq"
  /\ trap.tf0.cpsr % 32 # 16
  /\ trap.irq_calls = <<0>>

\* the register names of a layout
NamesOf(regs) == {regs[i] : i \in 1..Len(regs)}

\* C23: UspaceContext::new(entry, ustack_top, arg0) returns a TrapFrame whose
\* program-counter field is entry, whose sp slot is ustack_top, whose a0 slot
\* is arg0, whose every other general register is zero, and whose status
\* selects user privilege with interrupts enabled on return (riscv: SPP clear,
\* SPIE and SUM set; loongarch64: PPLV = 3, PIE set).
C23_UspaceNew ==
  (us.pc # "kernel") =>
    IF arch = "riscv64/uspace"
    THEN /\ us.mem[RiscvSepcSlot] = us.args.entry
         /\ us.mem[SlotOf(RiscvRegs, "sp")] = us.args.ustack_top
         /\ us.mem[SlotOf(RiscvRegs, "a0")] = us.args.arg0
         /\ \A r \in NamesOf(RiscvRegs) \ {"sp", "a0"} :
              us.mem[SlotOf(RiscvRegs, r)] = 0
         /\ ~BitSet(us.mem[RiscvSstatusSlot], 256)
         /\ BitSet(us.mem[RiscvSstatusSlot], 32)
         /\ BitSet(us.mem[RiscvSstatusSlot], 262144)
    ELSE /\ us.mem[LoongEraSlot] = us.args.entry
         /\ us.mem[SlotOf(LoongRegs, "sp")] = us.args.ustack_top
         /\ us.mem[SlotOf(LoongRegs, "a0")] = us.args.arg0
         /\ \A r \in NamesOf(LoongRegs) \ {"sp", "a0"} :
              us.mem[SlotOf(LoongRegs, r)] = 0
         /\ us.mem[LoongPrmdSlot] % 4 = 3
         /\ BitSet(us.mem[LoongPrmdSlot], 4)

\* a loongarch64 context was built from three different arguments
C23_Witness ==
  /\ arch = "loongarch64"
  /\ us.pc = "built"
  /\ us.args.entry # us.args.ustack_top
  /\ us.args.ustack_top # us.args.arg0
  /\ us.args.entry # us.args.arg0

\* C24: user-entry scenario. UspaceContext::new(entry, ustack_top, arg0)
\* followed by enter_uspace starts the user code with pc = entry,
\* sp = ustack_top and a0 = arg0, in user privilege with the status value of
\* the frame: each slot enter_uspace loads (sp, gp, tp, status) is the slot
\* where the TrapFrame layout keeps that field.
C24_UserEntry ==
  us.pc = "user" =>
    /\ us.upc = us.args.entry
    /\ us.x["sp"] = us.args.ustack_top
    /\ us.x["a0"] = us.args.arg0
    /\ us.priv = "U"
    /\ us.status = us.mem[IF arch = "riscv64/uspace" THEN RiscvSstatusSlot
                          ELSE LoongPrmdSlot]

\* C25: order of enter_uspace. It disables interrupts first, then publishes
\* kstack_top as the stack for the next trap from this context, then writes
\* the frame's program counter to the resume-address register, then pops the
\* frame and returns to user privilege; interrupts stay masked from the first
\* step until the status value of the frame is loaded, and the function does
\* not return to its caller.
C25_EnterOrder ==
  /\ us.pc \in {"masked", "published", "epc"} => ~us.ie
  /\ us.pc \in {"masked", "published", "epc", "user"} =>
       us.ev[1] = <<"disable_irqs">>
  /\ us.pc = "masked" => Len(us.ev) = 1
  /\ us.pc \in {"published", "epc", "user"} =>
       /\ us.ev[2] = <<"kernel_sp", us.kstack_top>>
       /\ us.ksp = us.kstack_top
  /\ us.pc = "published" => Len(us.ev) = 2
  /\ us.pc \in {"epc", "user"} =>
       /\ us.ev[3] = <<"epc", us.args.entry>>
       /\ us.epc = us.args.entry
  /\ us.pc = "epc" => Len(us.ev) = 3
  /\ us.pc = "user" =>
       /\ \A i \in 4..Len(us.ev) :
            us.ev[i][1] \in {"kstore", "ksave", "status", "ret"}
       /\ \E i \in 4..(Len(us.ev) - 1) :
            us.ev[i] = <<"status",
                         us.mem[IF arch = "riscv64/uspace"
                                THEN RiscvSstatusSlot ELSE LoongPrmdSlot]>>
       /\ Last(us.ev) = <<"ret", us.args.entry>>
       /\ us.priv = "U"

\* C26: init_mmu(root) sets TTBR0 and TTBR1 to the same root, TTBCR and the
\* domain access register, invalidates the entire TLB and executes the
\* barriers, all before it sets the MMU-enable bit of SCTLR: the MMU is never
\* enabled while a root is unset or the TLB has not been invalidated.
C26_MmuEnabledLast ==
  mmu.sctlr.m =>
    /\ {"ttbr0", "ttbr1", "ttbcr", "dacr"} \subseteq mmu.written
    /\ mmu.ttbr0 = mmu.root
    /\ mmu.ttbr1 = mmu.root
    /\ mmu.ttbcr = 1
    /\ mmu.dacr = 1431655765
    /\ ~mmu.tlb_stale
    /\ \E i, j, k, l \in 1..Len(mmu.ev) :
         /\ i < j /\ j < k /\ k < l
         /\ mmu.ev[i] = "tlbiall"
         /\ mmu.ev[j] = "dsb"
         /\ mmu.ev[k] = "isb"
         /\ mmu.ev[l] = "sctlr"
         /\ \A n \in 1..Len(mmu.ev) : mmu.ev[n] = "sctlr" => n = l

\* init_mmu has enabled the MMU and the caches and run the final barriers
C26_Witness ==
  /\ mmu.sctlr.m
  /\ mmu.sctlr.c
  /\ mmu.sctlr.i
  /\ mmu.pc = 10
  /\ mmu.root = 2

\* C30: IdtStruct::new installs the handler of trap_handler_table in each of
\* the 256 vectors, and exactly the vectors 0x3 and 0x80 get Ring 3; every
\* other vector keeps the kernel privilege level.
C30_IdtPrivilege ==
  /\ idt.pc = "built" => idt.i = 256
  /\ idt.pc \in {"loop", "built"} =>
       \A v \in 0..255 :
         IF v < idt.i
         THEN /\ idt.table[v].present
              /\ idt.table[v].handler = v
              /\ idt.table[v].dpl = IF v = 3 \/ v = 128 THEN 3 ELSE 0
         ELSE ~idt.table[v].present

\* the table was returned with all 256 vectors present
C30_Witness ==
  /\ idt.pc = "built"
  /\ idt.table[255].present
  /\ idt.table[128].dpl = 3
  /\ idt.table[3].dpl = 3
  /\ idt.table[4].dpl = 0

\* C27: FP state is preserved across switch sequences: the FP registers and
\* fcsr a task observes when it is switched back in equal the values it had
\* when it was last switched out, and a task that never used FP observes all
\* zeros.
C27_FpPreserved ==
  pc = "landed" /\ hw.fs # "Off" =>
    /\ fpOut[nxt].out =>
         /\ hw.f = fpOut[nxt].f
         /\ hw.fcsr = fpOut[nxt].fcsr
    /\ ctx[nxt].fs = "Initial" =>
         /\ \A i \in FpIdx : hw.f[i] = 0
         /\ hw.fcsr = 0

\* the part of C27 about f0..f31 alone
C27_FpRegistersPreserved ==
  pc = "landed" /\ hw.fs # "Off" =>
    /\ fpOut[nxt].out => hw.f = fpOut[nxt].f
    /\ ctx[nxt].fs = "Initial" => \A i \in FpIdx : hw.f[i] = 0

\* a task is switched back in with FP registers it had written before
C27_Witness ==
  /\ pc = "landed"
  /\ fpOut[nxt].out
  /\ \E i \in FpIdx : fpOut[nxt].f[i] # 0
  /\ hw.f = fpOut[nxt].f

\* C28: switch_to(current, next) writes only to current. Every field of next
\* keeps its value; of current only ra, sp, s0..s11 and tp change, and the FP
\* bank and tag only when the hardware FS state was Dirty at the call;
\* current.satp is never written. Before the raw exchange only tp of current
\* has been stored.
C28_SwitchFrame ==
  (arch = "riscv64" /\ pc \in {"tls", "satp", "fp", "raw", "landed", "panic"}) =>
    /\ \A t \in Tasks \ {cur} : ctx[t] = pre.ctx[t]
    /\ ctx[cur].satp = pre.ctx[cur].satp
    /\ pre.hw.fs # "Dirty" =>
         /\ ctx[cur].fpm = pre.ctx[cur].fpm
         /\ ctx[cur].fs = pre.ctx[cur].fs
    /\ pc \in {"tls", "satp", "fp", "raw"} =>
         \A k \in WordSlots \ {14} : ctx[cur].w[k] = pre.ctx[cur].w[k]

\* a switch completed that stored registers and the FP bank into current
\* while next held a root and registers of its own
C28_Witness ==
  /\ Landed
  /\ pre.hw.fs = "Dirty"
  /\ ctx[cur].fpm # pre.ctx[cur].fpm
  /\ ctx[cur].w # pre.ctx[cur].w
  /\ ctx[nxt].w # ctx[cur].w

\* a switch completed from a task whose hardware FS state was not Dirty
C28_WitnessClean ==
  /\ Landed
  /\ pre.hw.fs = "Initial"
  /\ ctx[cur].fs = "Initial"
  /\ ctx[cur].w # pre.ctx[cur].w

\* C29: the dispatcher never alters the TrapFrame on an abort or IRQ: when a
\* data or prefetch abort is handled (the page-fault handler returns true) or
\* an IRQ is forwarded, the frame at return equals the frame at entry, so the
\* trapped context resumes at the same pc with the same registers.
C29_FrameUntouched ==
  (trap.handler \in {"data_abort", "prefetch_abort", "irq"} /\ trap.pc = "returned") =>
    /\ trap.tf = trap.tf0
    /\ trap.tf.pc = trap.tf0.pc
    /\ trap.handler # "irq" =>
         /\ Len(trap.calls) = 1
         /\ trap.calls[1].ret

\* a data abort taken at a non-zero pc was handled and the handler returned
C29_Witness ==
  /\ trap.handler = "data_abort"
  /\ trap.pc = "returned"
  /\ trap.calls # <<>>
  /\ trap.tf0.pc = 4
  /\ trap.tf0.r0 = 1

====
